---- MODULE Spec2Model ----
(***************************************************************************)
(* Model of "SE Challenge Task 2/main.py": load restaurant records, score  *)
(* them, rank them by a 4-key ordering, keep the top 10, write them to a   *)
(* file, fetch an authorization token and submit the result.               *)
(*                                                                         *)
(* Numbers.  A JSON number is modelled in fixed point with two decimals:   *)
(* Num(n) stands for n/100 (rating 4.0 is Num(400), distance 2.01 is       *)
(* Num(201), id 8 is Num(800), score 40.69 is Num(4069)).  Intermediate    *)
(* values of calculate_score are kept in millionths.  math.sin is a table  *)
(* of sin(id) rounded to millionths for the ids the inputs use.  On these  *)
(* inputs the fixed-point result equals the float result of the program.   *)
(*                                                                         *)
(* Strings are sequences of code points ("A" is <<65>>, "a" is <<97>>), so *)
(* that the case-sensitive lexicographic order of str is computed.         *)
(*                                                                         *)
(* A dict entry is a record over the five keys main() reads; a key that is *)
(* not in the dict holds Absent.                                           *)
(***************************************************************************)
EXTENDS Integers, Sequences, FiniteSets, TLC

VARIABLES
    file,            \* content of INPUT_FILE (environment, fixed for the run)
    pc,              \* position of main()
    validated_data,  \* main.validated_data: list of dict entries
    idx,             \* position of the scoring loop (1-based)
    top_10_results,  \* main.top_10_results: references (positions in validated_data)
    output,          \* main.output: projected result records
    out_file,        \* state of OUTPUT_FILE
    token,           \* main.token
    gets,            \* number of GET /register requests issued
    posts,           \* bodies POSTed to /test/check-topk-sort, in order
    log,             \* messages printed, in order
    exc              \* the exception that left main() unhandled, or "none"

vars == <<file, pc, validated_data, idx, top_10_results, output, out_file,
          token, gets, posts, log, exc>>

----------------------------------------------------------------------------
(* JSON values *)

Absent == [t |-> "absent", n |-> 0, s |-> <<>>]
Num(n) == [t |-> "num", n |-> n, s |-> <<>>]
Str(s) == [t |-> "str", n |-> 0, s |-> s]

Entry(id, name, rating, distance, score) ==
    [id |-> id, restaurant_name |-> name, rating |-> rating,
     distance_from_me |-> distance, score |-> score]

----------------------------------------------------------------------------
(* Bounds of the model *)

\* longest input list enumerated over the whole pool of records
MaxLen == 3
\* longest input list of the long (truncation) inputs
MaxLong == 12

(* Program constant: the slice sorted_data[:10] *)
TopK == 10

----------------------------------------------------------------------------
(* Inputs *)

\* records that calculate_score and the sort accept
ValidPool ==
    << Entry(Num(100),  Str(<<65>>),     Num(400), Num(200), Absent),
       Entry(Num(100),  Str(<<66>>),     Num(390), Num(0),   Absent),
       Entry(Num(200),  Str(<<65>>),     Num(400), Num(200), Absent),
       Entry(Num(200),  Str(<<65>>),     Num(400), Num(201), Absent),
       Entry(Num(800),  Str(<<97>>),     Num(400), Num(201), Absent),
       Entry(Num(1400), Str(<<66>>),     Num(400), Num(201), Absent),
       Entry(Num(1400), Str(<<97>>),     Num(400), Num(201), Absent),
       Entry(Num(800),  Str(<<97, 66>>), Num(400), Num(201), Absent),
       Entry(Num(100),  Str(<<65>>),     Num(400), Num(200), Num(9999)) >>

\* records lacking a field, or holding a string in a scored field
InvalidPool ==
    << Entry(Num(100), Str(<<65>>), Absent,        Num(200),      Absent),
       Entry(Num(100), Str(<<65>>), Num(400),      Absent,        Absent),
       Entry(Absent,   Str(<<65>>), Num(400),      Num(200),      Absent),
       Entry(Num(100), Absent,      Num(400),      Num(200),      Absent),
       Entry(Num(100), Str(<<65>>), Str(<<52>>),   Num(200),      Absent),
       Entry(Str(<<120>>), Str(<<65>>), Num(400),  Num(200),      Num(9999)),
       Entry(Absent,   Str(<<65>>), Num(400),      Num(200),      Num(100)) >>

Range(s) == {s[i] : i \in 1..Len(s)}

Pool == Range(ValidPool) \cup Range(InvalidPool)

SeqsUpTo(S, n) == UNION {[1..k -> S] : k \in 0..n}

\* long lists: a walk through the pools, so that more than TopK records occur
LongList(pool, n, start, stride) ==
    [i \in 1..n |-> pool[((start + i * stride) % Len(pool)) + 1]]

LongInputs ==
    {LongList(ValidPool, n, start, stride) :
        n \in (TopK - 1)..MaxLong, start \in 0..2, stride \in 1..2}
    \cup
    {LongList(ValidPool, n, start, 1) \o <<InvalidPool[k]>> :
        n \in {TopK}, start \in 0..1, k \in {6, 7}}

RecordLists == SeqsUpTo(Pool, MaxLen) \cup LongInputs

\* content of INPUT_FILE: absent, not JSON, a JSON array, or {"data": [...]}
FileContents ==
    {[kind |-> "missing", records |-> <<>>], [kind |-> "malformed", records |-> <<>>]}
    \cup {[kind |-> k, records |-> r] : k \in {"array", "envelope"}, r \in RecordLists}

----------------------------------------------------------------------------
(* calculate_score *)

\* math.sin(id) in millionths, for the ids of the pools (id is in hundredths)
SinMicro(n) ==
    CASE n = 100  -> 841471
      [] n = 200  -> 909297
      [] n = 800  -> 989358
      [] n = 1400 -> 990607

\* a value in hundredths, in millionths
Micro(n) == n * 10000

\* round(x, 2) of x in millionths: the nearest hundredth, a tie to the even one
Round2(x) ==
    LET q == x \div 10000
        r == x % 10000
    IN  IF r > 5000 \/ (r = 5000 /\ q % 2 = 1) THEN q + 1 ELSE q

calculate_score_nudge_dropped(entry) ==
    IF entry.rating = Absent \/ entry.distance_from_me = Absent \/ entry.id = Absent
    THEN [exc |-> "KeyError", val |-> 0]
    ELSE IF entry.rating.t # "num" \/ entry.distance_from_me.t # "num"
            \/ entry.id.t # "num"
    THEN [exc |-> "TypeError", val |-> 0]
    ELSE [exc |-> "none",
          val |-> Round2(Micro(entry.rating.n) * 10
                         - Micro(entry.distance_from_me.n) \div 2
                         + SinMicro(entry.id.n) * 2)]

\* the three lookups raise KeyError on an absent key (rating, then distance,
\* then id); the arithmetic and math.sin raise TypeError on a str operand.
\* base is in millionths.  "* 100" is a change of unit: base * 100 in units
\* of 1e-4 is the same integer, and 0.5 is 5000 of these units; "/ 100" is
\* the change back to millionths.
calculate_score(entry) ==
    IF entry.rating = Absent \/ entry.distance_from_me = Absent \/ entry.id = Absent
    THEN [exc |-> "KeyError", val |-> 0]
    ELSE IF entry.rating.t # "num" \/ entry.distance_from_me.t # "num"
            \/ entry.id.t # "num"
    THEN [exc |-> "TypeError", val |-> 0]
    ELSE LET rating   == Micro(entry.rating.n)
             distance == Micro(entry.distance_from_me.n)
             base     == rating * 10 - distance \div 2 + SinMicro(entry.id.n) * 2
             score    == base + 5000
         IN  [exc |-> "none", val |-> Round2(score)]

----------------------------------------------------------------------------
(* load_validated_data *)

load_validated_data_ignores_errors(f) ==
    IF f.kind \in {"missing", "malformed"}
    THEN <<Entry(Num(100), Str(<<65>>), Num(400), Num(200), Absent)>>
    ELSE f.records

\* FileNotFoundError and JSONDecodeError give []; {"data": x} gives x
load_validated_data(f) ==
    CASE f.kind = "missing"   -> <<>>
      [] f.kind = "malformed" -> <<>>
      [] f.kind = "envelope"  -> f.records
      [] f.kind = "array"     -> f.records

----------------------------------------------------------------------------
(* sorted(validated_data, key=...)[:10] and the projection *)

\* the key lambda on one entry: the first lookup or negation that raises
KeyExc(x) ==
    CASE x.score = Absent            -> "KeyError"
      [] x.score.t # "num"           -> "TypeError"
      [] x.rating = Absent           -> "KeyError"
      [] x.rating.t # "num"          -> "TypeError"
      [] x.distance_from_me = Absent -> "KeyError"
      [] x.restaurant_name = Absent  -> "KeyError"
      [] OTHER                       -> "none"

\* the key tuple (-score, -rating, distance_from_me, restaurant_name)
Key(x) == <<0 - x.score.n, 0 - x.rating.n, x.distance_from_me.n, x.restaurant_name.s>>

\* str < str: code points compared in order, a proper prefix is smaller
RECURSIVE StrLess(_, _)
StrLess(a, b) ==
    IF b = <<>> THEN FALSE
    ELSE IF a = <<>> THEN TRUE
    ELSE IF Head(a) # Head(b) THEN Head(a) < Head(b)
    ELSE StrLess(Tail(a), Tail(b))

KeyLess_distance_descending(k1, k2) ==
    IF k1[1] # k2[1] THEN k1[1] < k2[1]
    ELSE IF k1[2] # k2[2] THEN k1[2] < k2[2]
    ELSE IF k1[3] # k2[3] THEN k1[3] > k2[3]
    ELSE StrLess(k1[4], k2[4])

\* tuple < tuple: decided at the first component that differs
KeyLess(k1, k2) ==
    IF k1[1] # k2[1] THEN k1[1] < k2[1]
    ELSE IF k1[2] # k2[2] THEN k1[2] < k2[2]
    ELSE IF k1[3] # k2[3] THEN k1[3] < k2[3]
    ELSE StrLess(k1[4], k2[4])

\* the position at which a stable sort places item: after every element
\* that does not sort after it
RECURSIVE InsertPos(_, _, _, _)
InsertPos(data, s, item, p) ==
    IF p > Len(s) THEN p
    ELSE IF KeyLess(Key(data[item]), Key(data[s[p]])) THEN p
    ELSE InsertPos(data, s, item, p + 1)

InsertAt(s, p, item) == SubSeq(s, 1, p - 1) \o <<item>> \o SubSeq(s, p, Len(s))

Insert_before_equal(data, s, item) ==
    LET Before(p) == KeyLess(Key(data[s[p]]), Key(data[item]))
        n == Cardinality({p \in 1..Len(s) : Before(p)})
    IN  InsertAt(s, n + 1, item)

Insert(data, s, item) == InsertAt(s, InsertPos(data, s, item, 1), item)

\* sorted(): the stable order of the references 1..Len(data) by Key
RECURSIVE SortedRefs(_, _)
SortedRefs(data, n) ==
    IF n = 0 THEN <<>> ELSE Insert(data, SortedRefs(data, n - 1), n)

Truncate_keeps_eleven(s) == SubSeq(s, 1, IF Len(s) < TopK + 1 THEN Len(s) ELSE TopK + 1)

\* sorted_data[:10]
Truncate(s) == SubSeq(s, 1, IF Len(s) < TopK THEN Len(s) ELSE TopK)

\* the dict built for one entry of top_10_results
Project(entry) ==
    [id |-> entry.id, restaurant_name |-> entry.restaurant_name,
     rating |-> entry.rating, distance_from_me |-> entry.distance_from_me,
     score |-> entry.score]

----------------------------------------------------------------------------
(* get_authorization_token *)

NoneToken == "None"

\* the answers to GET /register: no answer, a non-2xx status, or a 2xx JSON body
\*   {}   {"data": null}   {"data": {}}   {"data": {"authorizationToken": ""}}
\*   {"data": {"authorizationToken": "tok"}}
TokenResponses ==
    {[kind |-> "transport_error", data |-> "absent", tok |-> ""],
     [kind |-> "status_error",    data |-> "absent", tok |-> ""],
     [kind |-> "ok", data |-> "absent", tok |-> ""],
     [kind |-> "ok", data |-> "null",   tok |-> ""],
     [kind |-> "ok", data |-> "object", tok |-> ""],
     [kind |-> "ok", data |-> "object", tok |-> "tok"]}

\* requests.get and raise_for_status raise RequestException, which is caught;
\* .get("data", {}) returns None for "data": null, and None.get raises
\* AttributeError, which is not caught
get_authorization_token(response) ==
    CASE response.kind = "transport_error" ->
            [exc |-> "none", token |-> NoneToken, msg |-> "token_error"]
      [] response.kind = "status_error" ->
            [exc |-> "none", token |-> NoneToken, msg |-> "token_error"]
      [] response.kind = "ok" /\ response.data = "null" ->
            [exc |-> "AttributeError", token |-> NoneToken, msg |-> "none"]
      [] response.kind = "ok" /\ response.data = "absent" ->
            [exc |-> "none", token |-> NoneToken, msg |-> "token_not_found"]
      [] response.kind = "ok" /\ response.data = "object" /\ response.tok = "" ->
            [exc |-> "none", token |-> NoneToken, msg |-> "token_not_found"]
      [] OTHER ->
            [exc |-> "none", token |-> response.tok, msg |-> "token_received"]

\* the answers to POST /test/check-topk-sort
SubmitResponses == {"transport_error", "status_error", "ok"}

----------------------------------------------------------------------------
(* main *)

Init ==
    /\ file \in FileContents
    /\ pc = "Start"
    /\ validated_data = <<>>
    /\ idx = 1
    /\ top_10_results = <<>>
    /\ output = <<>>
    /\ out_file = [state |-> "untouched", data |-> <<>>]
    /\ token = NoneToken
    /\ gets = 0
    /\ posts = <<>>
    /\ log = <<>>
    /\ exc = "none"

Load_without_early_exit ==
    /\ pc = "Start"
    /\ validated_data' = load_validated_data(file)
    /\ pc' = IF validated_data' = <<>> THEN "Scored" ELSE "Loaded"
    /\ UNCHANGED <<file, idx, top_10_results, output, out_file, token, gets,
                   posts, log, exc>>

\* validated_data = load_validated_data(INPUT_FILE); if not validated_data: return
Load ==
    /\ pc = "Start"
    /\ validated_data' = load_validated_data(file)
    /\ IF validated_data' = <<>>
       THEN /\ pc' = "NoData"
            /\ log' = Append(log, IF file.kind = "missing" THEN "input_not_found"
                                  ELSE IF file.kind = "malformed" THEN "input_malformed"
                                  ELSE "no_data")
       ELSE /\ pc' = "Loaded"
            /\ log' = log
    /\ UNCHANGED <<file, idx, top_10_results, output, out_file, token, gets,
                   posts, exc>>

\* one iteration of "for entry in validated_data": the score is attached, or
\* KeyError / TypeError is caught and the entry is left as it was
ScoreEntry ==
    /\ pc = "Loaded"
    /\ idx <= Len(validated_data)
    /\ LET r == calculate_score(validated_data[idx])
       IN  IF r.exc = "none"
           THEN /\ validated_data' =
                       [validated_data EXCEPT ![idx].score = Num(r.val)]
                /\ log' = log
           ELSE /\ validated_data' = validated_data
                /\ log' = Append(log, IF r.exc = "KeyError" THEN "missing_field"
                                      ELSE "type_error")
    /\ idx' = idx + 1
    /\ pc' = IF idx' > Len(validated_data) THEN "Scored" ELSE "Loaded"
    /\ UNCHANGED <<file, top_10_results, output, out_file, token, gets, posts, exc>>

\* the first exception the key lambda raises, over the entries in list order
RECURSIVE FirstKeyExc(_, _)
FirstKeyExc(data, i) ==
    IF i > Len(data) THEN "none"
    ELSE IF KeyExc(data[i]) # "none" THEN KeyExc(data[i])
    ELSE FirstKeyExc(data, i + 1)

\* sorted(...), [:10] and the projection; an exception of the key lambda or
\* of entry["id"] in the projection is caught nowhere
Rank ==
    /\ pc = "Scored"
    /\ LET e == FirstKeyExc(validated_data, 1)
           top == Truncate(SortedRefs(validated_data, Len(validated_data)))
       IN  IF e # "none"
           THEN /\ exc' = e
                /\ pc' = "Crashed"
                /\ UNCHANGED <<top_10_results, output>>
           ELSE IF \E k \in 1..Len(top) : validated_data[top[k]].id = Absent
           THEN /\ exc' = "KeyError"
                /\ pc' = "Crashed"
                /\ top_10_results' = top
                /\ output' = output
           ELSE /\ exc' = exc
                /\ pc' = "Ranked"
                /\ top_10_results' = top
                /\ output' = [k \in 1..Len(top) |-> Project(validated_data[top[k]])]
    /\ UNCHANGED <<file, validated_data, idx, out_file, token, gets, posts, log>>

Write_failure_propagates ==
    /\ pc = "Ranked"
    /\ \/ /\ out_file' = [state |-> "written", data |-> output]
          /\ log' = Append(log, "saved")
          /\ pc' = "Written"
          /\ exc' = exc
       \/ /\ out_file' = [state |-> "failed", data |-> <<>>]
          /\ log' = log
          /\ pc' = "Crashed"
          /\ exc' = "IOError"
    /\ UNCHANGED <<file, validated_data, idx, top_10_results, output, token,
                   gets, posts>>

\* write_output_file: the file holds the output, or IOError is caught and reported
Write ==
    /\ pc = "Ranked"
    /\ \/ /\ out_file' = [state |-> "written", data |-> output]
          /\ log' = Append(log, "saved")
       \/ /\ out_file' = [state |-> "failed", data |-> <<>>]
          /\ log' = Append(log, "write_error")
    /\ pc' = "Written"
    /\ UNCHANGED <<file, validated_data, idx, top_10_results, output, token,
                   gets, posts, exc>>

\* token = get_authorization_token(API_URL); if not token: return
FetchToken ==
    /\ pc = "Written"
    /\ gets' = gets + 1
    /\ \E response \in TokenResponses :
          LET r == get_authorization_token(response)
          IN  IF r.exc # "none"
              THEN /\ exc' = r.exc
                   /\ pc' = "Crashed"
                   /\ token' = token
                   /\ log' = log
              ELSE /\ exc' = exc
                   /\ token' = r.token
                   /\ IF r.token = NoneToken
                      THEN /\ pc' = "NoToken"
                           /\ log' = log \o <<r.msg, "no_token_exit">>
                      ELSE /\ pc' = "Authorized"
                           /\ log' = Append(log, r.msg)
    /\ UNCHANGED <<file, validated_data, idx, top_10_results, output, out_file, posts>>

\* submit_results: one POST of {"data": output}; every failure is caught
Submit ==
    /\ pc = "Authorized"
    /\ posts' = Append(posts, [authorization |-> token, data |-> output])
    /\ \E response \in SubmitResponses :
          log' = Append(log, IF response = "ok" THEN "submitted" ELSE "submit_error")
    /\ pc' = "Done"
    /\ UNCHANGED <<file, validated_data, idx, top_10_results, output, out_file,
                   token, gets, exc>>

Next == Load \/ ScoreEntry \/ Rank \/ Write \/ FetchToken \/ Submit

Spec == Init /\ [][Next]_vars

----------------------------------------------------------------------------
(* Vocabulary of the properties *)

\* the list the Loader returned, before the scoring loop touched it
Input == load_validated_data(file)

\* a record with the four fields, numeric where a number is expected
IsValid(e) ==
    /\ e.id.t = "num"
    /\ e.rating.t = "num"
    /\ e.distance_from_me.t = "num"
    /\ e.restaurant_name.t = "str"

AllValid(data) == \A i \in 1..Len(data) : IsValid(data[i])

\* main() is past the sort and the projection, and no exception left them
Produced == pc \in {"Ranked", "Written", "Authorized", "NoToken", "Done"}

\* main() has returned
Terminated == pc \in {"NoData", "NoToken", "Done"}

MinOf(a, b) == IF a < b THEN a ELSE b

\* a comes before b, or may stand next to it, under the composite key
OrderedPair(a, b) ==
    \/ a.score.n > b.score.n
    \/ /\ a.score.n = b.score.n
       /\ a.rating.n > b.rating.n
    \/ /\ a.score.n = b.score.n
       /\ a.rating.n = b.rating.n
       /\ a.distance_from_me.n < b.distance_from_me.n
    \/ /\ a.score.n = b.score.n
       /\ a.rating.n = b.rating.n
       /\ a.distance_from_me.n = b.distance_from_me.n
       /\ ~StrLess(b.restaurant_name.s, a.restaurant_name.s)

\* the four keys of a and b are equal
Tied(a, b) ==
    /\ a.score = b.score
    /\ a.rating = b.rating
    /\ a.distance_from_me = b.distance_from_me
    /\ a.restaurant_name = b.restaurant_name

\* a comes strictly before b under the composite key
Precedes(a, b) == OrderedPair(a, b) /\ ~Tied(a, b)

\* (rating*10 - distance*0.5 + sin(id)*2) + 0.5/100, in millionths
NudgedBase(e) ==
    e.rating.n * 100000 - e.distance_from_me.n * 5000 + 2 * SinMicro(e.id.n) + 5000

\* h hundredths is round(x, 2) for x millionths: no hundredth is nearer, and
\* of two equally near the even one is taken
IsRounded2(h, x) ==
    LET d == x - h * 10000
    IN  /\ d >= 0 - 5000
        /\ d <= 5000
        /\ (d = 5000 \/ d = 0 - 5000) => h % 2 = 0

----------------------------------------------------------------------------
(* Properties *)

\* C1: whenever the input holds a record that lacks rating, distance_from_me,
\* id or restaurant_name (or holds a non-number in a scored field), the run is
\* not aborted, and the output holds only valid records.
C1_InvalidRecordsSkipped ==
    (\E i \in 1..Len(Input) : ~IsValid(Input[i])) =>
        /\ pc # "Crashed"
        /\ Produced => \A k \in 1..Len(top_10_results) :
                           IsValid(Input[top_10_results[k]])

\* C2: whatever errors occur, no run of main() ends in an unhandled exception.
C2_NoUnhandledException == exc = "none" /\ pc # "Crashed"

\* C3: when the token fetch has failed (a GET was issued and no token came
\* of it), main() has taken the NoToken exit: it terminated normally and no
\* POST was issued.
C3_FetchFailureExits ==
    (gets > 0 /\ token = NoneToken) =>
        /\ pc = "NoToken"
        /\ exc = "none"
        /\ posts = <<>>

\* C4: for an input of valid records, consecutive output records are ordered
\* by score descending, then rating descending, then distance ascending, then
\* name ascending, and no record left out of the output comes strictly before
\* an output record.
C4_OutputOrdered ==
    (Produced /\ AllValid(Input)) =>
        /\ \A k \in 1..(Len(output) - 1) : OrderedPair(output[k], output[k + 1])
        /\ \A i \in 1..Len(validated_data) :
              i \notin Range(top_10_results) =>
                  \A k \in 1..Len(output) : ~Precedes(validated_data[i], output[k])

C4_Witness ==
    /\ pc = "Ranked"
    /\ AllValid(Input)
    /\ Len(validated_data) > TopK
    /\ \E k \in 1..(Len(output) - 1) :
          /\ output[k].score = output[k + 1].score
          /\ output[k].rating = output[k + 1].rating
          /\ output[k].distance_from_me = output[k + 1].distance_from_me
          /\ StrLess(output[k].restaurant_name.s, output[k + 1].restaurant_name.s)
    /\ \E k \in 1..(Len(output) - 1) :
          /\ output[k].score = output[k + 1].score
          /\ output[k].rating = output[k + 1].rating
          /\ output[k].distance_from_me.n < output[k + 1].distance_from_me.n

\* C5: the output has at most 10 records and at most as many as were scored
\* successfully; when all n input records are valid it has min(10, n).
C5_OutputLength ==
    Produced =>
        /\ Len(output) <= TopK
        /\ Len(output) <= Cardinality({i \in 1..Len(Input) :
                                          calculate_score(Input[i]).exc = "none"})
        /\ AllValid(Input) => Len(output) = MinOf(TopK, Len(Input))

C7_NoDataExit ==
    (pc # "Start" /\ Input = <<>>) =>
        /\ pc = "NoData"
        /\ validated_data = <<>>
        /\ idx = 1
        /\ output = <<>>
        /\ out_file.state = "untouched"
        /\ gets = 0
        /\ posts = <<>>
        /\ exc = "none"
        /\ ~ENABLED Next

C7_Witness ==
    /\ pc = "NoData"
    /\ file.kind = "malformed"
    /\ log = <<"input_malformed">>

\* C8: after a failed write of the output file the failure has been reported,
\* the token GET is the next step or has been issued, and a returned token is
\* followed by the POST of the very records that were to be written.
C8_WriteFailureContinues ==
    out_file.state = "failed" =>
        /\ \E k \in 1..Len(log) : log[k] = "write_error"
        /\ pc \in {"Written", "Authorized", "NoToken", "Done", "Crashed"}
        /\ pc = "Written" => (gets = 0 /\ ENABLED FetchToken)
        /\ pc # "Written" => gets = 1
        /\ pc = "Crashed" => exc = "AttributeError"
        /\ pc = "Authorized" => (token # NoneToken /\ posts = <<>> /\ ENABLED Submit)
        /\ pc = "Done" =>
              /\ posts = <<[authorization |-> token, data |-> output]>>
              /\ output = [k \in 1..Len(top_10_results) |->
                              Project(validated_data[top_10_results[k]])]

C8_Witness ==
    /\ out_file.state = "failed"
    /\ pc = "Done"
    /\ Len(output) > 1
    /\ posts = <<[authorization |-> "tok", data |-> output]>>

\* C9: two records of the output whose score, rating, distance_from_me and
\* restaurant_name are all equal stand in the order they had in the input.
C9_Stable ==
    Produced =>
        \A j \in 1..Len(top_10_results) : \A k \in 1..Len(top_10_results) :
            (j < k /\ Tied(validated_data[top_10_results[j]],
                           validated_data[top_10_results[k]]))
                => top_10_results[j] < top_10_results[k]

C9_Witness ==
    /\ pc = "Ranked"
    /\ \E j \in 1..Len(output) : \E k \in 1..Len(output) :
          /\ j < k
          /\ Tied(output[j], output[k])
          /\ output[j].id = Num(1400)
          /\ output[k].id = Num(800)
    /\ \E k \in 1..Len(output) : ~Tied(output[1], output[k])

\* C10: every output record carries the score calculate_score computed in this
\* run from the record's own rating, distance_from_me and id.
C10_ScoresComputedInRun ==
    Produced =>
        \A k \in 1..Len(output) :
            LET r == calculate_score(Input[top_10_results[k]])
            IN  /\ r.exc = "none"
                /\ output[k].score = Num(r.val)

====
